---- MODULE Spec2Model ----
(***************************************************************************)
(* A model of photogpt/dubit-pipecat:                                      *)
(*   - src/src/pipecat/utils/string.py      sentence-boundary matching     *)
(*   - src/src/pipecat/services/deepgram.py Deepgram TTS and STT services  *)
(*   - src/examples/foundational/06a-image-sync.py  ImageSyncAggregator    *)
(*                                                                         *)
(* A text is a sequence of characters, a character a one-character string; *)
(* the five full-width terminators are written by their code points        *)
(* ("U+3002" is the full-width full stop).  Offsets are Python's: the      *)
(* offset after the i-th character (1-based) is i.                         *)
(***************************************************************************)
EXTENDS Integers, Sequences, FiniteSets, TLC

VARIABLES
    text,       \* string.py: the argument of the call
    strOp,      \* string.py: "none" before the call, then the function called
    ret         \* string.py: the value returned, tagged with its Python type

VARIABLES
    ttsPc,      \* run_tts: the statement the generator is at
    ttsEvents,  \* run_tts: the calls made and the frames yielded, in order
    ttsBuffer,  \* run_tts: response.stream_memory: NoResponse, BufferNone, or the
                \*          number of chunks left to read
    ttsFailed,  \* run_tts: a step has raised an Exception
    ttsEscaped  \* run_tts: an exception has left the generator

VARIABLES
    sttSettings,    \* DeepgramSTTService._settings: model, language, vad_events
    sttConnected,   \* self._connection.is_connected
    sttLifecycle,   \* "created", then the last of start / stop / cancel
    sttLastOp,      \* the handler that ran last
    sttStartArgs,   \* the settings handed to connection.start by that handler
    sttStartOk,     \* what the last connection.start returned
    sttFinishCalls, \* the connection.finish calls made by that handler
    sttCalls,       \* the _on_message invocations, in order of arrival
    sttPushed,      \* the frames pushed by the service, in order
    sttSeen,        \* the frames process_frame was called with, by type
    sttFinalize,    \* the connection.finalize calls made
    sttMetricsStarts \* the start_metrics calls made

VARIABLES
    imgIn,      \* ImageSyncAggregator: the frames process_frame was called with
    imgOut,      \* ImageSyncAggregator: the frames it pushed, in order
    taskState,      \* PipelineTask: Created, Running, Cancelling or Finished
    taskQueue,      \* the frames queued and not dispatched yet
    taskPushed,     \* the frames the task has pushed into the pipeline, in order
    taskTerminal,   \* the End or Cancel frame travelling through the pipeline
    taskPassed      \* the processors that frame has been handled by

strVars == <<text, strOp, ret>>

\* The variables of the example, 06a-image-sync.py.
taskVars == <<taskState, taskQueue, taskPushed, taskTerminal, taskPassed>>

imgVars == <<imgIn, imgOut>>

extVars ==
    <<imgIn, imgOut, taskState, taskQueue, taskPushed, taskTerminal,
      taskPassed>>

sttConnVars ==
    <<sttSettings, sttConnected, sttLifecycle, sttLastOp, sttStartArgs,
      sttStartOk, sttFinishCalls>>

sttFrameVars == <<sttSeen, sttFinalize, sttMetricsStarts>>

sttVars ==
    <<sttSettings, sttConnected, sttLifecycle, sttLastOp, sttStartArgs,
      sttStartOk, sttFinishCalls, sttCalls, sttPushed, sttSeen, sttFinalize,
      sttMetricsStarts>>

ttsVars == <<ttsPc, ttsEvents, ttsBuffer, ttsFailed, ttsEscaped>>

vars ==
    <<text, strOp, ret, ttsPc, ttsEvents, ttsBuffer, ttsFailed, ttsEscaped,
      sttSettings, sttConnected, sttLifecycle, sttLastOp, sttStartArgs,
      sttStartOk, sttFinishCalls, sttCalls, sttPushed, sttSeen, sttFinalize,
      sttMetricsStarts, imgIn, imgOut, taskState, taskQueue, taskPushed,
      taskTerminal, taskPassed>>

-----------------------------------------------------------------------------
(* Bounds of the model.                                                    *)

\* A text is made of at most MaxTokens tokens of Tokens.
MaxTokens == 4

\* The audio of a Deepgram response holds at most MaxChunks chunks of
\* chunk_size bytes.
MaxChunks == 3

\* At most MaxMsgs Transcript messages are delivered to _on_message.
MaxMsgs == 2

\* ImageSyncAggregator.process_frame is called with at most MaxFrames frames.
MaxFrames == 3

\* At most MaxSpeech SpeechStarted events are delivered to the service.
MaxSpeech == 2

\* DeepgramSTTService.process_frame is called with at most MaxSpeakingFrames
\* UserStartedSpeakingFrames and UserStoppedSpeakingFrames.
MaxSpeakingFrames == 2

\* Beside the frames it processes, the service receives at most MaxFrameMsgs
\* Transcript events.
MaxFrameMsgs == 1

\* At most MaxQueued frames are handed to PipelineTask.queue_frames in all.
MaxQueued == 2

\* The processors of the example's Pipeline (06a-image-sync.py, lines 116-126).
NumProcessors == 7

-----------------------------------------------------------------------------
(* Character classes of the regular expressions (Python's re, str pattern). *)

\* [A-Z]
IsUpper(c) ==
    c \in {"A", "B", "C", "D", "E", "F", "G", "H", "I", "J", "K", "L", "M",
           "N", "O", "P", "Q", "R", "S", "T", "U", "V", "W", "X", "Y", "Z"}

\* \d
IsDigit(c) == c \in {"0", "1", "2", "3", "4", "5", "6", "7", "8", "9"}

\* \s, and the characters str.rstrip() removes
IsSpace(c) == c \in {" ", "\t", "\n", "\r"}

\* [\.\?\!:;]
IsAsciiTerminator(c) == c \in {".", "?", "!", ":", ";"}

\* the full-width class: full stop, question mark, exclamation mark, colon,
\* semicolon
IsFullWidthTerminator(c) ==
    c \in {"U+3002", "U+FF1F", "U+FF01", "U+FF1A", "U+FF1B"}

IsTerminator(c) == IsAsciiTerminator(c) \/ IsFullWidthTerminator(c)

-----------------------------------------------------------------------------
(* The negative lookbehinds, at the character s[i] (1-based).  Each        *)
(* operator says that the lookbehind's pattern DOES precede s[i].          *)

\* (?<![A-Z])
BehindUpper(s, i) == i > 1 /\ IsUpper(s[i - 1])

\* (?<!\d)
BehindDigit(s, i) == i > 1 /\ IsDigit(s[i - 1])

\* (?<!\d\s[ap])
BehindTime(s, i) ==
    i > 3 /\ IsDigit(s[i - 3]) /\ IsSpace(s[i - 2]) /\ s[i - 1] \in {"a", "p"}

\* (?<!Mr|Ms|Dr)
BehindMrMsDr(s, i) ==
    i > 2 /\ <<s[i - 2], s[i - 1]>> \in {<<"M", "r">>, <<"M", "s">>, <<"D", "r">>}

\* (?<!Mrs)
BehindMrs(s, i) == i > 3 /\ <<s[i - 3], s[i - 2], s[i - 1]>> = <<"M", "r", "s">>

\* (?<!Prof)
BehindProf(s, i) ==
    i > 4 /\ <<s[i - 4], s[i - 3], s[i - 2], s[i - 1]>> = <<"P", "r", "o", "f">>

\* The six lookbehinds all succeed: none of the patterns precedes s[i].
Lookbehinds(s, i) ==
    /\ ~BehindUpper(s, i)
    /\ ~BehindDigit(s, i)
    /\ ~BehindTime(s, i)
    /\ ~BehindMrMsDr(s, i)
    /\ ~BehindMrs(s, i)
    /\ ~BehindProf(s, i)

\* $ (no MULTILINE) at offset p: the end of the string, or just before a
\* newline that ends it.
AtEndOfString(s, p) ==
    \/ p = Len(s)
    \/ p = Len(s) - 1 /\ s[Len(s)] = "\n"

\* str.rstrip()
RECURSIVE rstrip(_)
rstrip(s) ==
    IF s # <<>> /\ IsSpace(s[Len(s)])
    THEN rstrip(SubSeq(s, 1, Len(s) - 1))
    ELSE s

Min(S) == CHOOSE x \in S : \A y \in S : x <= y

-----------------------------------------------------------------------------
(* ENDOFSENTENCE_PATTERN.  The top-level "|" splits the pattern in two     *)
(* alternatives: the lookbehinds followed by an ASCII terminator, or a     *)
(* full-width terminator followed by $.                                    *)

ENDOFSENTENCE_PATTERN(s, i) ==
    \/ Lookbehinds(s, i) /\ IsAsciiTerminator(s[i])
    \/ IsFullWidthTerminator(s[i]) /\ AtEndOfString(s, i)

\* pattern.search(s): the leftmost match; the value is the set of the ends of
\* the matches, whose least element is match.end() (empty: None).
SearchEnds(s) == {i \in 1..Len(s) : ENDOFSENTENCE_PATTERN(s, i)}

\* A variant that returns the whole length when nothing matches.
match_endofsentence_whole(t) ==
    LET ends == SearchEnds(rstrip(t))
    IN  IF ends # {} THEN Min(ends) ELSE Len(t)

match_endofsentence(t) ==
    LET ends == SearchEnds(rstrip(t))
    IN  IF ends # {} THEN Min(ends) ELSE 0

-----------------------------------------------------------------------------
(* ENDOFSENTENCES_PATTERN: the two terminator classes are grouped, so the  *)
(* lookbehinds apply to both, and there is no $.                           *)

ENDOFSENTENCES_PATTERN(s, i) ==
    Lookbehinds(s, i) /\ (IsAsciiTerminator(s[i]) \/ IsFullWidthTerminator(s[i]))

\* [match.end() for match in pattern.finditer(s)], left to right from
\* character i on.
RECURSIVE EndIndicesFrom(_, _)
EndIndicesFrom(s, i) ==
    IF i > Len(s) THEN <<>>
    ELSE (IF ENDOFSENTENCES_PATTERN(s, i) THEN <<i>> ELSE <<>>)
         \o EndIndicesFrom(s, i + 1)

end_indices(t) == EndIndicesFrom(t, 1)

\* The function returns an int in both branches: the last end, or 0.
find_endofsentences(t) ==
    LET ends == end_indices(t)
    IN  IF ends # <<>>
        THEN [kind |-> "int", val |-> ends[Len(ends)]]
        ELSE [kind |-> "int", val |-> 0]

-----------------------------------------------------------------------------
(* The calls of the two functions, on every text of the input set.         *)

\* The tokens the input texts are made of: one character of each class the
\* patterns tell apart, and the titles of the lookbehinds.
Tokens ==
    { <<"x">>, <<"U">>, <<"3">>, <<" ">>, <<"a">>, <<".">>, <<"U+3002">>,
      <<"D", "r">>, <<"M", "s">>, <<"M", "r", "s">>, <<"P", "r", "o", "f">> }

RECURSIVE TextsOf(_)
TextsOf(n) ==
    IF n = 0 THEN {<<>>}
    ELSE LET shorter == TextsOf(n - 1)
         IN  shorter \cup {t \o k : t \in shorter, k \in Tokens}

Texts == TextsOf(MaxTokens)

NoReturn == [kind |-> "none", val |-> 0]

\* No frame has been handed to DeepgramSTTService.process_frame.
NoFramesSeen ==
    [UserStartedSpeakingFrame |-> 0, UserStoppedSpeakingFrame |-> 0]

\* ttsBuffer before the response has arrived.
NoResponse == -2

\* ttsBuffer when response.stream_memory is None.
BufferNone == -1

\* No call of string.py is made.
StrIdle ==
    /\ text = <<>>
    /\ strOp = "none"
    /\ ret = NoReturn

\* No run_tts call is made.
TtsIdle ==
    /\ ttsPc = "idle"
    /\ ttsEvents = <<>>
    /\ ttsBuffer = NoResponse
    /\ ttsFailed = FALSE
    /\ ttsEscaped = FALSE

\* What the constructor of LiveOptions is given here: the fields the service
\* reads back.  A language is a member of the Language enum or a plain str.
default_options ==
    [model |-> "nova-2-general",
     language |-> [kind |-> "Language", tag |-> "en"],
     vad_events |-> FALSE]

\* lines 141-143: the caller's live_options override the defaults field by
\* field; live is the record of the fields the caller sets.
merged_options(live) ==
    [k \in DOMAIN default_options |->
        IF k \in DOMAIN live THEN live[k] ELSE default_options[k]]

\* lines 146-149: a Language member is replaced by its value, a str
ValueOfLanguage(l) ==
    IF l.kind = "Language" THEN [kind |-> "str", tag |-> l.tag] ELSE l

\* lines 141-151: self._settings after construction
InitialSettings(live) ==
    LET merged == merged_options(live)
    IN  [merged EXCEPT !.language = ValueOfLanguage(merged.language)]

\* The live_options the service is constructed with; the first is None.
LiveOptionsChoices ==
    { [none |-> TRUE],
      [vad_events |-> TRUE],
      [language |-> [kind |-> "Language", tag |-> "es"]],
      [language |-> [kind |-> "str", tag |-> "es"], vad_events |-> TRUE],
      [model |-> "nova-2-phonecall"] }

\* The models and languages set_model and set_language are called with.
Models == {"nova-2-general", "nova-2-phonecall"}

LanguageTags == {"en", "es"}

\* No DeepgramSTTService is constructed.
SttIdle ==
    /\ sttSettings = default_options
    /\ sttConnected = FALSE
    /\ sttLifecycle = "none"
    /\ sttLastOp = "none"
    /\ sttStartArgs = <<>>
    /\ sttStartOk = FALSE
    /\ sttFinishCalls = 0
    /\ sttCalls = <<>>
    /\ sttPushed = <<>>
    /\ sttSeen = NoFramesSeen
    /\ sttFinalize = 0
    /\ sttMetricsStarts = 0

\* The example is not run.
\* A PipelineTask as constructed: nothing queued, run() not entered.
TaskCreated ==
    /\ taskState = "Created"
    /\ taskQueue = <<>>
    /\ taskPushed = <<>>
    /\ taskTerminal = "none"
    /\ taskPassed = 0

ImgIdle ==
    /\ imgIn = <<>>
    /\ imgOut = <<>>

ExtIdle ==
    /\ ImgIdle
    /\ TaskCreated

InitStr ==
    /\ text \in Texts
    /\ strOp = "none"
    /\ ret = NoReturn
    /\ TtsIdle
    /\ SttIdle
    /\ ExtIdle

CallMatch ==
    /\ strOp = "none"
    /\ strOp' = "match_endofsentence"
    /\ ret' = [kind |-> "int", val |-> match_endofsentence(text)]
    /\ UNCHANGED <<text, ttsVars, sttVars, extVars>>

CallFind ==
    /\ strOp = "none"
    /\ strOp' = "find_endofsentences"
    /\ ret' = find_endofsentences(text)
    /\ UNCHANGED <<text, ttsVars, sttVars, extVars>>

NextStr == CallMatch \/ CallFind

SpecStr == InitStr /\ [][NextStr]_vars

-----------------------------------------------------------------------------
(* DeepgramTTSService.run_tts, one statement of the generator per action.  *)
(* ttsEvents records the awaited calls and the frames yielded, in order.   *)

\* The statements inside the try block (lines 82-111).
TryBody_afterMetrics ==
    {"request", "await_response", "usage", "yield_started", "buffer",
     "stop_ttfb", "read", "yield_audio", "yield_stopped"}

TryBody ==
    {"start_ttfb", "request", "await_response", "usage", "yield_started",
     "buffer", "stop_ttfb", "read", "yield_audio", "yield_stopped"}

\* The statements that call out of the generator and so can raise: the
\* metrics calls, the Deepgram request, and the read of a chunk.
RaisingSteps == {"start_ttfb", "await_response", "usage", "stop_ttfb", "read"}

TtsFrames == {"TTSStartedFrame", "TTSAudioRawFrame", "TTSStoppedFrame", "ErrorFrame"}

\* The frames the generator has yielded, in order.
Yielded == SelectSeq(ttsEvents, LAMBDA e : e \in TtsFrames)

\* An exception raised at statement pc: "except Exception" catches it when
\* the statement is inside the try block, otherwise it leaves the generator.
Raise(pc) ==
    /\ ttsFailed' = TRUE
    /\ IF pc \in TryBody
       THEN ttsPc' = "except" /\ ttsEscaped' = ttsEscaped
       ELSE ttsPc' = "raised" /\ ttsEscaped' = TRUE

InitTts ==
    /\ StrIdle
    /\ SttIdle
    /\ ExtIdle
    /\ ttsPc = "options"
    /\ ttsEvents = <<>>
    /\ ttsBuffer = NoResponse
    /\ ttsFailed = FALSE
    /\ ttsEscaped = FALSE

\* lines 73-80: the log line and SpeakOptions
TtsOptions ==
    /\ ttsPc = "options"
    /\ ttsPc' = "start_ttfb"
    /\ UNCHANGED <<ttsEvents, ttsBuffer, ttsFailed, ttsEscaped, strVars, sttVars, extVars>>

\* line 83: await self.start_ttfb_metrics()
TtsStartTtfb ==
    /\ ttsPc = "start_ttfb"
    /\ ttsPc' = "request"
    /\ ttsEvents' = Append(ttsEvents, "start_ttfb_metrics")
    /\ UNCHANGED <<ttsBuffer, ttsFailed, ttsEscaped, strVars, sttVars, extVars>>

\* lines 85-87: the request is handed to a thread and awaited
TtsRequest ==
    /\ ttsPc = "request"
    /\ ttsPc' = "await_response"
    /\ ttsEvents' = Append(ttsEvents, "request")
    /\ UNCHANGED <<ttsBuffer, ttsFailed, ttsEscaped, strVars, sttVars, extVars>>

\* lines 85-87: the thread returns the response; its stream_memory is None
\* or a buffer of n chunks
TtsResponse ==
    /\ ttsPc = "await_response"
    /\ \E b \in {BufferNone} \cup (0..MaxChunks) : ttsBuffer' = b
    /\ ttsPc' = "usage"
    /\ ttsEvents' = Append(ttsEvents, "response")
    /\ UNCHANGED <<ttsFailed, ttsEscaped, strVars, sttVars, extVars>>

\* line 89: await self.start_tts_usage_metrics(text)
TtsUsage ==
    /\ ttsPc = "usage"
    /\ ttsPc' = "yield_started"
    /\ ttsEvents' = Append(ttsEvents, "start_tts_usage_metrics")
    /\ UNCHANGED <<ttsBuffer, ttsFailed, ttsEscaped, strVars, sttVars, extVars>>

\* line 90: yield TTSStartedFrame()
TtsYieldStarted ==
    /\ ttsPc = "yield_started"
    /\ ttsPc' = "buffer"
    /\ ttsEvents' = Append(ttsEvents, "TTSStartedFrame")
    /\ UNCHANGED <<ttsBuffer, ttsFailed, ttsEscaped, strVars, sttVars, extVars>>

\* lines 93-100: raise ValueError when there is no buffer, else seek(0)
TtsBuffer ==
    /\ ttsPc = "buffer"
    /\ IF ttsBuffer = BufferNone
       THEN Raise("buffer")
       ELSE ttsPc' = "stop_ttfb" /\ UNCHANGED <<ttsFailed, ttsEscaped>>
    /\ UNCHANGED <<ttsEvents, ttsBuffer, strVars, sttVars, extVars>>

\* The loop without the call of stop_ttfb_metrics.
TtsStopTtfb_skipped ==
    /\ ttsPc = "stop_ttfb"
    /\ ttsPc' = "read"
    /\ UNCHANGED <<ttsEvents, ttsBuffer, ttsFailed, ttsEscaped, strVars, sttVars, extVars>>

\* line 102: await self.stop_ttfb_metrics(), at the top of every iteration
TtsStopTtfb ==
    /\ ttsPc = "stop_ttfb"
    /\ ttsPc' = "read"
    /\ ttsEvents' = Append(ttsEvents, "stop_ttfb_metrics")
    /\ UNCHANGED <<ttsBuffer, ttsFailed, ttsEscaped, strVars, sttVars, extVars>>

\* lines 103-105: read a chunk; an empty chunk breaks out of the loop, and
\* the generator returns
TtsRead ==
    /\ ttsPc = "read"
    /\ IF ttsBuffer = 0
       THEN ttsPc' = "done" /\ UNCHANGED ttsBuffer
       ELSE ttsPc' = "yield_audio" /\ ttsBuffer' = ttsBuffer - 1
    /\ UNCHANGED <<ttsEvents, ttsFailed, ttsEscaped, strVars, sttVars, extVars>>

\* lines 106-109: yield the TTSAudioRawFrame of the chunk
TtsYieldAudio ==
    /\ ttsPc = "yield_audio"
    /\ ttsPc' = "yield_stopped"
    /\ ttsEvents' = Append(ttsEvents, "TTSAudioRawFrame")
    /\ UNCHANGED <<ttsBuffer, ttsFailed, ttsEscaped, strVars, sttVars, extVars>>

\* line 111: yield TTSStoppedFrame(), inside the loop
TtsYieldStopped ==
    /\ ttsPc = "yield_stopped"
    /\ ttsPc' = "stop_ttfb"
    /\ ttsEvents' = Append(ttsEvents, "TTSStoppedFrame")
    /\ UNCHANGED <<ttsBuffer, ttsFailed, ttsEscaped, strVars, sttVars, extVars>>

\* a call out of the generator raises an Exception
TtsRaise ==
    /\ ttsPc \in RaisingSteps
    /\ Raise(ttsPc)
    /\ UNCHANGED <<ttsEvents, ttsBuffer, strVars, sttVars, extVars>>

\* lines 113-115: log, yield the ErrorFrame, return
TtsExcept ==
    /\ ttsPc = "except"
    /\ ttsPc' = "done"
    /\ ttsEvents' = Append(ttsEvents, "ErrorFrame")
    /\ UNCHANGED <<ttsBuffer, ttsFailed, ttsEscaped, strVars, sttVars, extVars>>

NextTts ==
    \/ TtsOptions
    \/ TtsStartTtfb
    \/ TtsRequest
    \/ TtsResponse
    \/ TtsUsage
    \/ TtsYieldStarted
    \/ TtsBuffer
    \/ TtsStopTtfb
    \/ TtsRead
    \/ TtsYieldAudio
    \/ TtsYieldStopped
    \/ TtsRaise
    \/ TtsExcept

SpecTts == InitTts /\ [][NextTts]_vars

\* The statements of the generator itself.  The generator runs them one
\* after the other as long as its consumer iterates; the answer to the
\* Deepgram request (TtsResponse, or TtsRaise while awaiting it) is the
\* environment's and nothing bounds the wait for it.
TtsProgram ==
    \/ TtsOptions
    \/ TtsStartTtfb
    \/ TtsRequest
    \/ TtsUsage
    \/ TtsYieldStarted
    \/ TtsBuffer
    \/ TtsStopTtfb
    \/ TtsRead
    \/ TtsYieldAudio
    \/ TtsYieldStopped
    \/ TtsExcept

SpecTtsFair == InitTts /\ [][NextTts]_vars /\ WF_vars(TtsProgram)

-----------------------------------------------------------------------------
(* DeepgramSTTService: construction, and the handlers that open and close  *)
(* the Deepgram connection.  A handler is one action.  What                *)
(* connection.start returns is the environment's choice.                   *)

\* line 210: if self._connection.is_connected
NeedsFinish_never(connected) == FALSE

NeedsFinish(connected) == connected

\* lines 209-212, _disconnect: finish() closes the connection
Disconnected(connected) == IF NeedsFinish(connected) THEN FALSE ELSE connected

FinishCalls(connected) == IF NeedsFinish(connected) THEN 1 ELSE 0

\* lines 204-207, _connect, on a connection in state connected and with
\* connection.start returning ok: one call of connection.start with
\* self._settings; a false result is logged and nothing else is done.  A
\* failed start leaves the connection closed, or as it was.
Connect(settings, connected, ok) ==
    /\ sttStartArgs' = <<settings>>
    /\ sttStartOk' = ok
    /\ sttConnected' \in (IF ok THEN {TRUE} ELSE {FALSE, connected})

InitStt ==
    /\ StrIdle
    /\ TtsIdle
    /\ ExtIdle
    /\ \E live \in LiveOptionsChoices : sttSettings = InitialSettings(live)
    /\ sttConnected = FALSE
    /\ sttLifecycle = "created"
    /\ sttLastOp = "init"
    /\ sttStartArgs = <<>>
    /\ sttStartOk = FALSE
    /\ sttFinishCalls = 0
    /\ sttCalls = <<>>
    /\ sttPushed = <<>>
    /\ sttSeen = NoFramesSeen
    /\ sttFinalize = 0
    /\ sttMetricsStarts = 0

\* lines 188-190: start(StartFrame)
SttStart ==
    /\ sttLifecycle = "created"
    /\ sttLifecycle' = "started"
    /\ sttLastOp' = "start"
    /\ sttFinishCalls' = 0
    /\ \E ok \in BOOLEAN : Connect(sttSettings, sttConnected, ok)
    /\ UNCHANGED <<sttSettings, sttCalls, sttPushed, strVars, ttsVars, extVars, sttFrameVars>>

\* lines 192-194: stop(EndFrame)
SttStop ==
    /\ sttLifecycle = "started"
    /\ sttLifecycle' = "stopped"
    /\ sttLastOp' = "stop"
    /\ sttFinishCalls' = FinishCalls(sttConnected)
    /\ sttConnected' = Disconnected(sttConnected)
    /\ sttStartArgs' = <<>>
    /\ UNCHANGED <<sttSettings, sttStartOk, sttCalls, sttPushed, strVars, ttsVars, extVars, sttFrameVars>>

\* lines 196-198: cancel(CancelFrame); a task may be cancelled before it
\* has started
SttCancel ==
    /\ sttLifecycle \in {"created", "started"}
    /\ sttLifecycle' = "cancelled"
    /\ sttLastOp' = "cancel"
    /\ sttFinishCalls' = FinishCalls(sttConnected)
    /\ sttConnected' = Disconnected(sttConnected)
    /\ sttStartArgs' = <<>>
    /\ UNCHANGED <<sttSettings, sttStartOk, sttCalls, sttPushed, strVars, ttsVars, extVars, sttFrameVars>>

\* lines 175-180: set_model(model)
SttSetModel ==
    \E model \in Models, ok \in BOOLEAN :
        /\ sttSettings' = [sttSettings EXCEPT !.model = model]
        /\ sttLastOp' = "set_model"
        /\ sttFinishCalls' = FinishCalls(sttConnected)
        /\ Connect(sttSettings', Disconnected(sttConnected), ok)
        /\ UNCHANGED <<sttLifecycle, sttCalls, sttPushed, strVars, ttsVars, extVars, sttFrameVars>>

\* lines 182-186: set_language(language), language a Language member, which
\* is stored as it is
SttSetLanguage ==
    \E tag \in LanguageTags, ok \in BOOLEAN :
        /\ sttSettings' =
               [sttSettings EXCEPT !.language = [kind |-> "Language", tag |-> tag]]
        /\ sttLastOp' = "set_language"
        /\ sttFinishCalls' = FinishCalls(sttConnected)
        /\ Connect(sttSettings', Disconnected(sttConnected), ok)
        /\ UNCHANGED <<sttLifecycle, sttCalls, sttPushed, strVars, ttsVars, extVars, sttFrameVars>>

NextStt ==
    \/ SttStart
    \/ SttStop
    \/ SttCancel
    \/ SttSetModel
    \/ SttSetLanguage

SpecStt == InitStt /\ [][NextStt]_vars

-----------------------------------------------------------------------------
(* DeepgramSTTService._on_message.  Each Transcript message starts one     *)
(* invocation of the coroutine; an invocation runs up to its next await in *)
(* one action, and invocations may overlap at their awaits: nothing in     *)
(* _on_message serialises them.                                            *)

\* The Transcript messages delivered: result.channel.alternatives is empty
\* or holds one alternative, with its transcript (a sequence of words) and
\* its first language ("none": no languages; "xx": no member of Language).
Messages ==
    {[alternatives |-> 0, is_final |-> FALSE, transcript |-> <<>>, language |-> "none"]}
    \cup
    [alternatives : {1}, is_final : BOOLEAN, transcript : {<<>>, <<"hello">>},
     language : {"none", "en", "xx"}]

\* line 237: Language(language) raises ValueError for a value that is no
\* member of the enum
LanguageRaises(m) == m.language \notin ({"none"} \cup LanguageTags)

\* lines 229-238, without the test of the transcript
OnMessageEntry_noEmptyTest(m) ==
    IF m.alternatives = 0 THEN "done"
    ELSE IF LanguageRaises(m) THEN "raised"
    ELSE "stop_ttfb"

\* lines 229-238: where the invocation is when it first awaits or returns
OnMessageEntry(m) ==
    IF m.alternatives = 0 THEN "done"
    ELSE IF LanguageRaises(m) THEN "raised"
    ELSE IF Len(m.transcript) > 0 THEN "stop_ttfb"
    ELSE "done"

\* line 170: self.vad_enabled
vad_enabled == sttSettings.vad_events

Frame(type, i) == [type |-> type, msg |-> i]

InitSttMsg ==
    /\ StrIdle
    /\ TtsIdle
    /\ ExtIdle
    /\ \E live \in LiveOptionsChoices : sttSettings = InitialSettings(live)
    /\ sttConnected = TRUE
    /\ sttLifecycle = "started"
    /\ sttLastOp = "start"
    /\ sttStartArgs = <<sttSettings>>
    /\ sttStartOk = TRUE
    /\ sttFinishCalls = 0
    /\ sttCalls = <<>>
    /\ sttPushed = <<>>
    /\ sttSeen = NoFramesSeen
    /\ sttFinalize = 0
    /\ sttMetricsStarts = 0

\* The connection delivers a Transcript message: lines 229-238 run
SttOnMessage ==
    /\ sttConnected
    /\ Len(sttCalls) < MaxMsgs
    /\ \E m \in Messages :
           sttCalls' = Append(sttCalls, [msg |-> m, pc |-> OnMessageEntry(m)])
    /\ UNCHANGED <<sttConnVars, sttPushed, strVars, ttsVars, extVars, sttFrameVars>>

\* line 239: await self.stop_ttfb_metrics(), then line 240
SttMsgStopTtfb ==
    \E i \in DOMAIN sttCalls :
        /\ sttCalls[i].pc = "stop_ttfb"
        /\ sttCalls' =
               [sttCalls EXCEPT ![i].pc =
                   IF sttCalls[i].msg.is_final THEN "push_final" ELSE "push_interim"]
        /\ UNCHANGED <<sttConnVars, sttPushed, strVars, ttsVars, extVars, sttFrameVars>>

\* lines 241-245: await self.push_frame(TranscriptionFrame(...))
SttMsgPushFinal ==
    \E i \in DOMAIN sttCalls :
        /\ sttCalls[i].pc = "push_final"
        /\ sttPushed' = Append(sttPushed, Frame("TranscriptionFrame", i))
        /\ sttCalls' =
               [sttCalls EXCEPT ![i].pc =
                   IF vad_enabled THEN "push_stopped" ELSE "stop_processing"]
        /\ UNCHANGED <<sttConnVars, strVars, ttsVars, extVars, sttFrameVars>>

\* lines 246-247: await self.push_frame(UserStoppedSpeakingFrame())
SttMsgPushStopped ==
    \E i \in DOMAIN sttCalls :
        /\ sttCalls[i].pc = "push_stopped"
        /\ sttPushed' = Append(sttPushed, Frame("UserStoppedSpeakingFrame", i))
        /\ sttCalls' = [sttCalls EXCEPT ![i].pc = "stop_processing"]
        /\ UNCHANGED <<sttConnVars, strVars, ttsVars, extVars, sttFrameVars>>

\* line 258: await self.stop_processing_metrics()
SttMsgStopProcessing ==
    \E i \in DOMAIN sttCalls :
        /\ sttCalls[i].pc = "stop_processing"
        /\ sttCalls' = [sttCalls EXCEPT ![i].pc = "done"]
        /\ UNCHANGED <<sttConnVars, sttPushed, strVars, ttsVars, extVars, sttFrameVars>>

\* lines 260-262: await self.push_frame(InterimTranscriptionFrame(...))
SttMsgPushInterim ==
    \E i \in DOMAIN sttCalls :
        /\ sttCalls[i].pc = "push_interim"
        /\ sttPushed' = Append(sttPushed, Frame("InterimTranscriptionFrame", i))
        /\ sttCalls' = [sttCalls EXCEPT ![i].pc = "done"]
        /\ UNCHANGED <<sttConnVars, strVars, ttsVars, extVars, sttFrameVars>>

NextSttMsg ==
    \/ SttOnMessage
    \/ SttMsgStopTtfb
    \/ SttMsgPushFinal
    \/ SttMsgPushStopped
    \/ SttMsgStopProcessing
    \/ SttMsgPushInterim

SpecSttMsg == InitSttMsg /\ [][NextSttMsg]_vars

-----------------------------------------------------------------------------
(* DeepgramSTTService._on_speech_started and process_frame, beside         *)
(* _on_message.                                                            *)

\* The frames process_frame is called with: the two it reacts to, and one
\* of the others.
SttFrameTypes ==
    {"UserStartedSpeakingFrame", "UserStoppedSpeakingFrame", "TextFrame"}

SpeakingFrames == {"UserStartedSpeakingFrame", "UserStoppedSpeakingFrame"}

\* lines 267-269: start_metrics for a frame of this type
MetricsStartsFor(type, vad) ==
    IF type = "UserStartedSpeakingFrame" /\ ~vad THEN 1 ELSE 0

\* finalize() for every UserStoppedSpeakingFrame, whatever vad_events is.
FinalizeCallsFor_always(type, vad) ==
    IF type = "UserStoppedSpeakingFrame" THEN 1 ELSE 0

\* lines 270-273: connection.finalize() for a frame of this type
FinalizeCallsFor(type, vad) ==
    IF type = "UserStoppedSpeakingFrame" /\ ~vad THEN 1 ELSE 0

\* The SpeechStarted events delivered so far: each has pushed its frame.
SpeechStartedEvents ==
    Len(SelectSeq(sttPushed, LAMBDA f : f.type = "UserStartedSpeakingFrame"))

\* lines 218-223: _on_speech_started, registered (lines 162-165) only when
\* vad_events is set; the frame is pushed before the first await returns
SttOnSpeechStarted ==
    /\ sttConnected
    /\ vad_enabled
    /\ SpeechStartedEvents < MaxSpeech
    /\ sttPushed' = Append(sttPushed, Frame("UserStartedSpeakingFrame", 0))
    /\ sttMetricsStarts' = sttMetricsStarts + 1
    /\ UNCHANGED <<sttConnVars, sttCalls, sttSeen, sttFinalize, strVars, ttsVars, extVars>>

\* lines 264-274: process_frame(frame, direction)
SttProcessFrame ==
    \E type \in SttFrameTypes :
        /\ type \in SpeakingFrames =>
               sttSeen.UserStartedSpeakingFrame + sttSeen.UserStoppedSpeakingFrame
                   < MaxSpeakingFrames
        /\ sttSeen' =
               IF type \in SpeakingFrames
               THEN [sttSeen EXCEPT ![type] = @ + 1]
               ELSE sttSeen
        /\ sttMetricsStarts' = sttMetricsStarts + MetricsStartsFor(type, vad_enabled)
        /\ sttFinalize' = sttFinalize + FinalizeCallsFor(type, vad_enabled)
        /\ UNCHANGED <<sttConnVars, sttCalls, sttPushed, strVars, ttsVars, extVars>>

\* The Transcript and SpeechStarted events of one connection.
NextSttVad ==
    \/ SttOnMessage
    \/ SttMsgStopTtfb
    \/ SttMsgPushFinal
    \/ SttMsgPushStopped
    \/ SttMsgStopProcessing
    \/ SttMsgPushInterim
    \/ SttOnSpeechStarted

SpecSttVad == InitSttMsg /\ [][NextSttVad]_vars

\* _on_message within the frame-processing specification, which delivers at
\* most MaxFrameMsgs Transcript events.
SttFramesOnMessage ==
    /\ Len(sttCalls) < MaxFrameMsgs
    /\ SttOnMessage

\* The frames of the pipeline and the events of the connection together.
NextSttFrames ==
    \/ SttFramesOnMessage
    \/ SttMsgStopTtfb
    \/ SttMsgPushFinal
    \/ SttMsgPushStopped
    \/ SttMsgStopProcessing
    \/ SttMsgPushInterim
    \/ SttOnSpeechStarted
    \/ SttProcessFrame

SpecSttFrames == InitSttMsg /\ [][NextSttFrames]_vars

-----------------------------------------------------------------------------
(* ImageSyncAggregator (06a-image-sync.py).  process_frame is one action:  *)
(* the processor is handed its frames one at a time.                       *)

\* The frames the aggregator is called with: the two it reacts to, and one
\* of the others.
ImgFrameTypes == {"BotStartedSpeakingFrame", "BotStoppedSpeakingFrame", "TextFrame"}

Directions == {"Downstream", "Upstream"}

\* FrameProcessor.push_frame(frame, direction=Downstream): the direction of a
\* push that names none.
DefaultPushDirection == "Downstream"

\* lines 54-70: the images pushed for a frame (if / elif)
ImagesFor(type) ==
    IF type = "BotStartedSpeakingFrame" THEN <<"speaking">>
    ELSE IF type = "BotStoppedSpeakingFrame" THEN <<"waiting">>
    ELSE <<>>

\* An OutputImageRawFrame of the aggregator's own, pushed for input k.
ImageFrame(image, k) ==
    [type |-> "OutputImageRawFrame", dir |-> DefaultPushDirection, src |-> k,
     image |-> image]

\* line 72: await self.push_frame(frame); the direction the frame arrived
\* with is not passed on
Forward(type, dir, k) ==
    [type |-> type, dir |-> DefaultPushDirection, src |-> k, image |-> "none"]

\* The pushes in the other order: the frame first, then its image.
ProcessFrameOutput_forwardFirst(type, dir, k) ==
    <<Forward(type, dir, k)>>
    \o [j \in 1..Len(ImagesFor(type)) |-> ImageFrame(ImagesFor(type)[j], k)]

\* lines 51-72: what process_frame pushes for its k-th frame
ProcessFrameOutput(type, dir, k) ==
    [j \in 1..Len(ImagesFor(type)) |-> ImageFrame(ImagesFor(type)[j], k)]
    \o <<Forward(type, dir, k)>>

InitImg ==
    /\ StrIdle
    /\ TtsIdle
    /\ SttIdle
    /\ TaskCreated
    /\ imgIn = <<>>
    /\ imgOut = <<>>

\* lines 51-72: process_frame(frame, direction)
ImgProcessFrame ==
    /\ Len(imgIn) < MaxFrames
    /\ \E type \in ImgFrameTypes, dir \in Directions :
           /\ imgIn' = Append(imgIn, [type |-> type, dir |-> dir])
           /\ imgOut' = imgOut \o ProcessFrameOutput(type, dir, Len(imgIn) + 1)
    /\ UNCHANGED <<strVars, ttsVars, sttVars, taskVars>>

NextImg == ImgProcessFrame

SpecImg == InitImg /\ [][NextImg]_vars

-----------------------------------------------------------------------------
(* PipelineTask as the example drives it (06a-image-sync.py, lines          *)
(* 128-150): queue_frames from on_first_participant_joined, cancel from    *)
(* on_participant_left, run through runner.run(task).                      *)

\* The frames handed to queue_frames: content frames and the End frame.
TaskFrameTypes == {"TextFrame", "EndFrame"}

\* The arguments of queue_frames: one frame or two.
TaskFrameLists ==
    UNION {[1..n -> TaskFrameTypes] : n \in 1..2}

IsQueuedFrame(f) == f \in TaskFrameTypes

\* The frames queued so far, dispatched or not.
TaskQueuedInAll ==
    Len(taskQueue) + Len(SelectSeq(taskPushed, IsQueuedFrame))

\* run() drains the queue whatever the state of the task, cancelled or not.
TaskCanDispatch_cancelled(state) == state \in {"Running", "Cancelling"}

\* run() drains the queue until the task is cancelled or has finished.
TaskCanDispatch(state) == state = "Running"

InitTask ==
    /\ StrIdle
    /\ TtsIdle
    /\ SttIdle
    /\ ImgIdle
    /\ TaskCreated

\* queue_frames(frames): refused once the task is Finished
TaskQueueFrames ==
    /\ taskState # "Finished"
    /\ \E frames \in TaskFrameLists :
           /\ TaskQueuedInAll + Len(frames) <= MaxQueued
           /\ taskQueue' = taskQueue \o frames
    /\ UNCHANGED <<taskState, taskPushed, taskTerminal, taskPassed, strVars,
                   ttsVars, sttVars, imgVars>>

\* run() entry: Created -> Running, the Start frame is pushed
TaskRun ==
    /\ taskState = "Created"
    /\ taskState' = "Running"
    /\ taskPushed' = Append(taskPushed, "StartFrame")
    /\ UNCHANGED <<taskQueue, taskTerminal, taskPassed, strVars, ttsVars,
                   sttVars, imgVars>>

\* run() draining the queue: the next queued frame is pushed downstream
TaskDispatch ==
    /\ TaskCanDispatch(taskState)
    /\ taskQueue # <<>>
    /\ taskPushed' = Append(taskPushed, Head(taskQueue))
    /\ taskQueue' = Tail(taskQueue)
    /\ IF Head(taskQueue) = "EndFrame" /\ taskTerminal = "none"
       THEN taskTerminal' = "EndFrame" /\ taskPassed' = 0
       ELSE UNCHANGED <<taskTerminal, taskPassed>>
    /\ UNCHANGED <<taskState, strVars, ttsVars, sttVars, imgVars>>

\* cancel(): Running -> Cancelling, the Cancel frame is pushed at once
TaskCancel ==
    /\ taskState = "Running"
    /\ taskState' = "Cancelling"
    /\ taskPushed' = Append(taskPushed, "CancelFrame")
    /\ taskTerminal' = "CancelFrame"
    /\ taskPassed' = 0
    /\ UNCHANGED <<taskQueue, strVars, ttsVars, sttVars, imgVars>>

\* The next processor of the chain handles the End or Cancel frame
TaskPropagate ==
    /\ taskState \in {"Running", "Cancelling"}
    /\ taskTerminal # "none"
    /\ taskPassed < NumProcessors
    /\ taskPassed' = taskPassed + 1
    /\ UNCHANGED <<taskState, taskQueue, taskPushed, taskTerminal, strVars,
                   ttsVars, sttVars, imgVars>>

\* The End or Cancel frame has been through every processor: Finished,
\* run() completes and runner.run(task) returns
TaskFinish ==
    /\ taskState \in {"Running", "Cancelling"}
    /\ taskTerminal # "none"
    /\ taskPassed = NumProcessors
    /\ taskState' = "Finished"
    /\ UNCHANGED <<taskQueue, taskPushed, taskTerminal, taskPassed, strVars,
                   ttsVars, sttVars, imgVars>>

NextTask ==
    \/ TaskQueueFrames
    \/ TaskRun
    \/ TaskDispatch
    \/ TaskCancel
    \/ TaskPropagate
    \/ TaskFinish

\* The pipeline's own steps: a terminal frame is handed on by each processor
\* without waiting, and run() returns once it is through.
TaskProgram == TaskPropagate \/ TaskFinish

SpecTask == InitTask /\ [][NextTask]_vars

SpecTaskFair == InitTask /\ [][NextTask]_vars /\ WF_vars(TaskProgram)

-----------------------------------------------------------------------------
(* Claims about string.py, checked under SpecStr.                          *)

Matched == strOp = "match_endofsentence"

Found == strOp = "find_endofsentences"

EndsWithTerminator(s) == s # <<>> /\ IsTerminator(s[Len(s)])

IsBlank(s) == \A i \in DOMAIN s : IsSpace(s[i])

\* The offsets after the terminators of s that no lookbehind suppresses.
BoundaryOffsets(s) ==
    {i \in 1..Len(s) : IsTerminator(s[i]) /\ Lookbehinds(s, i)}

\* C1: match_endofsentence anchors at the end of the trimmed text: when the
\* right-trimmed text does not end with a terminator the result is 0, also
\* when terminators occur earlier in the text.
C1_AnchoredAtEnd ==
    (Matched /\ ~EndsWithTerminator(rstrip(text))) => ret.val = 0

\* C2: when the right-trimmed text ends with a terminator that is not
\* suppressed, match_endofsentence returns the offset after that last
\* terminator, the length of the right-trimmed text.
C2_OffsetAfterLastTerminator ==
    (/\ Matched
     /\ EndsWithTerminator(rstrip(text))
     /\ Lookbehinds(rstrip(text), Len(rstrip(text))))
    => ret.val = Len(rstrip(text))

\* C3: a result k > 0 of match_endofsentence is the offset after a
\* terminator, ASCII or full-width, that none of the lookbehind patterns
\* (uppercase letter, digit, digit-space-a/p, Mr, Ms, Dr, Mrs, Prof)
\* precedes.
C3_SuppressionEveryTerminator ==
    (Matched /\ ret.val > 0)
    => (IsTerminator(text[ret.val]) /\ Lookbehinds(text, ret.val))

\* C4: find_endofsentences returns a sequence: the offsets after every
\* terminator that is not suppressed, strictly increasing, empty when
\* there is none.
C4_AllOffsetsInOrder ==
    Found =>
        /\ ret.kind = "list"
        /\ \A j \in 1..(Len(ret.val) - 1) : ret.val[j] < ret.val[j + 1]
        /\ {ret.val[j] : j \in DOMAIN ret.val} = BoundaryOffsets(text)

\* C5: for the empty string and for every text of whitespace only,
\* match_endofsentence returns 0.
C5_BlankNoMatch ==
    (Matched /\ IsBlank(text)) => (ret.kind = "int" /\ ret.val = 0)

C5_Witness ==
    Matched /\ IsBlank(text) /\ Len(text) >= 2 /\ ret.val = 0

-----------------------------------------------------------------------------
(* Claims about DeepgramTTSService.run_tts, checked under SpecTts.         *)

Count(seq, x) == Len(SelectSeq(seq, LAMBDA e : e = x))

\* C6: run_tts lets no exception escape: once a step has failed, the
\* generator is in its handler or has returned, and when it has returned it
\* has yielded exactly one ErrorFrame, as its last frame, whatever it had
\* yielded before.
C6_FailureYieldsErrorFrame ==
    /\ ~ttsEscaped
    /\ ttsFailed => ttsPc \in {"except", "done"}
    /\ (ttsFailed /\ ttsPc = "done") =>
           /\ Yielded # <<>>
           /\ Yielded[Len(Yielded)] = "ErrorFrame"
           /\ Count(Yielded, "ErrorFrame") = 1

\* A chunk read fails after frames were yielded; the call ends on the
\* ErrorFrame.
C6_Witness ==
    /\ ttsFailed
    /\ ttsPc = "done"
    /\ Len(Yielded) >= 4
    /\ Yielded[Len(Yielded)] = "ErrorFrame"

-----------------------------------------------------------------------------
(* Claims about DeepgramSTTService's connection, checked under SpecStt.    *)

\* C7: when connection.start returns false during start, set_model or
\* set_language, the handler makes a further connection attempt or the
\* service pushes an ErrorFrame: the service is never silently left
\* disconnected.
C7_FailedConnectSurfaced ==
    (sttLastOp \in {"start", "set_model", "set_language"} /\ ~sttStartOk)
    => \/ Len(sttStartArgs) > 1
       \/ \E i \in DOMAIN sttPushed : sttPushed[i].type = "ErrorFrame"

\* C8: start always makes a connection attempt, and after stop or cancel
\* the connection is not connected, whatever calls came before.
C8_Lifecycle ==
    /\ sttLastOp = "start" => Len(sttStartArgs) >= 1
    /\ sttLastOp \in {"stop", "cancel"} => ~sttConnected

\* stop has closed a connection that was open
C8_Witness ==
    sttLastOp = "stop" /\ sttFinishCalls = 1 /\ ~sttConnected

-----------------------------------------------------------------------------
(* Claims about DeepgramSTTService._on_message, checked under SpecSttMsg.  *)

\* The frames pushed for message i, in order.
PushedFor(i) == SelectSeq(sttPushed, LAMBDA f : f.msg = i)

Finished(i) == sttCalls[i].pc \in {"done", "raised"}

HasText(m) == m.alternatives > 0 /\ Len(m.transcript) > 0

TranscriptionType(m) ==
    IF m.is_final THEN "TranscriptionFrame" ELSE "InterimTranscriptionFrame"

C10_ArrivalOrder ==
    \A p, q \in DOMAIN sttPushed :
        p < q => sttPushed[p].msg <= sttPushed[q].msg

-----------------------------------------------------------------------------
(* Further claims about run_tts.                                           *)

Before(x, i) == \E j \in 1..(i - 1) : ttsEvents[j] = x

\* C12: the time-to-first-byte measurement brackets the request:
\* start_ttfb_metrics is called before the request is issued, and
\* stop_ttfb_metrics is called, after the request, before the first
\* TTSAudioRawFrame is yielded.
C12_TtfbBracketsRequest ==
    \A i \in DOMAIN ttsEvents :
        /\ ttsEvents[i] = "request" => Before("start_ttfb_metrics", i)
        /\ ttsEvents[i] = "TTSAudioRawFrame" =>
               \E j \in 1..(i - 1) :
                   ttsEvents[j] = "stop_ttfb_metrics" /\ Before("request", j)

\* A run that has yielded an audio frame.
C12_Witness ==
    /\ Count(ttsEvents, "TTSAudioRawFrame") >= 1
    /\ Count(ttsEvents, "stop_ttfb_metrics") >= 1

\* C13: a run_tts call always terminates, also when the Deepgram request
\* never returns (checked under SpecTtsFair, where the generator's own
\* statements are fair and the response is not).
C13_AlwaysTerminates == <>(ttsPc = "done")

\* C16: a call that yields a TTSStartedFrame and completes without error
\* yields exactly one TTSStoppedFrame, as its last frame, after the last
\* TTSAudioRawFrame, for any number of chunks.
C16_OneStoppedFrameLast ==
    (ttsPc = "done" /\ ~ttsFailed /\ Count(Yielded, "TTSStartedFrame") >= 1)
    => /\ Count(Yielded, "TTSStoppedFrame") = 1
       /\ Yielded[Len(Yielded)] = "TTSStoppedFrame"

-----------------------------------------------------------------------------
(* Further claims about DeepgramSTTService's connection (SpecStt).         *)

\* C17: the connection is open only while the service is started: it is
\* never connected before a StartFrame was processed or after the last
\* lifecycle frame was an EndFrame or a CancelFrame.
C17_ConnectedOnlyWhileStarted ==
    sttConnected => sttLifecycle = "started"

\* C20: the language entry of the settings handed to connection.start is
\* always a plain str, never a member of Language.
C20_LanguageIsStr ==
    \A i \in DOMAIN sttStartArgs : sttStartArgs[i].language.kind = "str"

-----------------------------------------------------------------------------
(* Claims about ImageSyncAggregator, checked under SpecImg.                *)

IsOwnImage(f) == f.type = "OutputImageRawFrame"

\* The frames forwarded, in the order pushed.
Forwarded == SelectSeq(imgOut, LAMBDA f : ~IsOwnImage(f))

\* The images pushed for the k-th frame received.
ImagesPushedFor(k) == SelectSeq(imgOut, LAMBDA f : IsOwnImage(f) /\ f.src = k)

ExpectedImage(type) ==
    IF type = "BotStartedSpeakingFrame" THEN "speaking" ELSE "waiting"

\* C11: every frame received is forwarded exactly once, in the order
\* received; the output is causal; a BotStartedSpeakingFrame or
\* BotStoppedSpeakingFrame gets exactly one OutputImageRawFrame (speaking,
\* respectively waiting), pushed immediately before it; no other frame gets
\* an image.
C11_ForwardOnceCausal ==
    /\ Len(Forwarded) = Len(imgIn)
    /\ \A k \in DOMAIN imgIn :
           /\ Forwarded[k].src = k
           /\ Forwarded[k].type = imgIn[k].type
           /\ Len(ImagesPushedFor(k)) =
                  (IF imgIn[k].type \in {"BotStartedSpeakingFrame", "BotStoppedSpeakingFrame"}
                   THEN 1 ELSE 0)
    /\ \A p, q \in DOMAIN imgOut : p < q => imgOut[p].src <= imgOut[q].src
    /\ \A p \in DOMAIN imgOut :
           IsOwnImage(imgOut[p]) =>
               /\ p < Len(imgOut)
               /\ ~IsOwnImage(imgOut[p + 1])
               /\ imgOut[p + 1].src = imgOut[p].src
               /\ imgOut[p].image = ExpectedImage(imgOut[p + 1].type)

\* A Bot frame, another frame and a Bot frame again have been processed.
C11_Witness ==
    /\ Len(imgIn) = 3
    /\ imgIn[1].type = "BotStartedSpeakingFrame"
    /\ imgIn[2].type = "TextFrame"
    /\ imgIn[3].type = "BotStoppedSpeakingFrame"
    /\ Len(imgOut) = 5

\* C19: a frame is forwarded in the direction it was received with.
C19_DirectionPreserved ==
    \A p \in DOMAIN imgOut :
        ~IsOwnImage(imgOut[p]) => imgOut[p].dir = imgIn[imgOut[p].src].dir

-----------------------------------------------------------------------------
(* Claims about the speech-state frames of DeepgramSTTService, checked     *)
(* under SpecSttVad and SpecSttFrames.                                     *)

\* The UserStartedSpeakingFrames and UserStoppedSpeakingFrames pushed.
SpeechFramesPushed == SelectSeq(sttPushed, LAMBDA f : f.type \in SpeakingFrames)

CountBefore(type, p) ==
    Cardinality({j \in 1..(p - 1) : sttPushed[j].type = type})

\* C15: with vad_events enabled the UserStartedSpeakingFrames and
\* UserStoppedSpeakingFrames pushed alternate strictly, beginning with a
\* Started frame, and every final TranscriptionFrame is pushed after a
\* Started frame whose Stopped frame has not been pushed yet.
C15_StartStopAlternate ==
    vad_enabled =>
        /\ \A i \in DOMAIN SpeechFramesPushed :
               SpeechFramesPushed[i].type =
                   (IF i % 2 = 1 THEN "UserStartedSpeakingFrame"
                    ELSE "UserStoppedSpeakingFrame")
        /\ \A p \in DOMAIN sttPushed :
               sttPushed[p].type = "TranscriptionFrame" =>
                   CountBefore("UserStartedSpeakingFrame", p)
                       = CountBefore("UserStoppedSpeakingFrame", p) + 1

\* C18: with vad_events disabled the service calls finalize() once per
\* UserStoppedSpeakingFrame processed, starts metrics on each
\* UserStartedSpeakingFrame processed, and pushes no UserStartedSpeakingFrame
\* or UserStoppedSpeakingFrame of its own; with vad_events enabled it never
\* calls finalize().
C18_VadExclusive ==
    /\ ~vad_enabled =>
           /\ sttFinalize = sttSeen.UserStoppedSpeakingFrame
           /\ sttMetricsStarts = sttSeen.UserStartedSpeakingFrame
           /\ SpeechFramesPushed = <<>>
    /\ vad_enabled => sttFinalize = 0

\* vad_events disabled: both kinds of frame processed, and a final result
\* transcribed.
C18_Witness ==
    /\ ~vad_enabled
    /\ sttSeen.UserStartedSpeakingFrame = 1
    /\ sttSeen.UserStoppedSpeakingFrame = 1
    /\ sttFinalize = 1
    /\ \E p \in DOMAIN sttPushed : sttPushed[p].type = "TranscriptionFrame"

-----------------------------------------------------------------------------
(* Claims about PipelineTask, checked under SpecTaskFair.                  *)

\* cancel() has been received with frames queued and none of them dispatched.
CancelledBeforeDispatch ==
    /\ taskState = "Cancelling"
    /\ taskQueue # <<>>
    /\ taskPushed = <<"StartFrame", "CancelFrame">>

\* Nothing is pushed into the pipeline after the Cancel frame.
NothingAfterCancel ==
    \A i \in DOMAIN taskPushed :
        taskPushed[i] = "CancelFrame" => i = Len(taskPushed)

\* C14: a PipelineTask that receives cancel() while frames are queued and
\* before any of them is dispatched reaches Finished, and no queued frame is
\* dispatched into the pipeline after the cancellation.
C14_CancelReachesFinished ==
    /\ []NothingAfterCancel
    /\ CancelledBeforeDispatch ~> (taskState = "Finished")

\* The task has finished after a cancel() received before any dispatch, the
\* queued frames still in its queue.
C14_Witness ==
    /\ taskState = "Finished"
    /\ taskQueue # <<>>
    /\ taskPushed = <<"StartFrame", "CancelFrame">>

====
